---- MODULE Spec2Model ----
(***************************************************************************)
(* scripts/create_project.py: the project scaffolder.                      *)
(*                                                                         *)
(* The filesystem is a function from paths to entries.  A path is the      *)
(* sequence of its components, so that Path.parent is the sequence without *)
(* its last component and `a / b` is concatenation.  The script is run as  *)
(* a process (the __main__ block); a process that has exited may be        *)
(* started again on the filesystem it left behind.                         *)
(***************************************************************************)
EXTENDS Integers, Sequences, FiniteSets, TLC

\* Bounds of the model.
MaxPre == 2        \* entries that exist below the project folder initially
MaxDenied == 1     \* directories in which the user may not create entries
MaxRuns == 3       \* runs of the script on the same filesystem

-----------------------------------------------------------------------------
\* The constants of the script.

base_path == <<"C:", "Users", "damja", "WebstormProjects", "Shirtful", "Wareneingang">>

project_path == base_path \o <<"rfid-qr-app">>

directories == << <<"renderer">>, <<"rfid">>, <<"db">> >>

files ==
  << <<"main.js">>, <<"preload.js">>,
     <<"renderer", "index.html">>, <<"renderer", "app.js">>, <<"renderer", "styles.css">>,
     <<"rfid", "rfid-listener.js">>,
     <<"db", "db-client.js">>,
     <<".env">>, <<"package.json">>, <<"electron-builder.yml">> >>

expected_items ==
  << <<"main.js">>, <<"preload.js">>,
     <<"renderer">>,
     <<"renderer", "index.html">>, <<"renderer", "app.js">>, <<"renderer", "styles.css">>,
     <<"rfid">>, <<"rfid", "rfid-listener.js">>,
     <<"db">>, <<"db", "db-client.js">>,
     <<".env">>, <<"package.json">>, <<"electron-builder.yml">> >>

\* Path(r"...\rfid-qr-app") of the __main__ block.
main_project_path ==
  <<"C:", "Users", "damja", "WebstormProjects", "Shirtful", "Wareneingang", "rfid-qr-app">>

-----------------------------------------------------------------------------
\* Paths and filesystem entries.

Range(s) == {s[n] : n \in 1..Len(s)}

\* Path.parent: the anchor (the drive) is its own parent.
Parent(p) == IF Len(p) <= 1 THEN p ELSE SubSeq(p, 1, Len(p) - 1)

Prefixes(p) == {SubSeq(p, 1, n) : n \in 1..Len(p)}

DeclaredDirs == {project_path \o d : d \in Range(directories)}
DeclaredFiles == {project_path \o f : f \in Range(files)}
Declared == DeclaredDirs \cup DeclaredFiles

Paths ==
  UNION {Prefixes(q) : q \in Declared \cup {main_project_path \o e : e \in Range(expected_items)}}

Absent == [kind |-> "none", data |-> ""]
Dir == [kind |-> "dir", data |-> ""]
File(c) == [kind |-> "file", data |-> c]

EmptyContent == ""
SomeContent == "x"

\* Path.exists() and Path.is_dir()
Exists(f, p) == f[p].kind # "none"
IsDir(f, p) == f[p].kind = "dir"

NoExc == [kind |-> "None", filename |-> <<>>]
Raise(k, p) == [kind |-> k, filename |-> p]

-----------------------------------------------------------------------------
\* The filesystem calls the script makes.  Each returns the filesystem it
\* leaves and the exception it raises (NoExc when it returns normally).

\* os.mkdir(p).  The target exists: FileExistsError.  The drive is missing, or
\* the parent is missing or is not a directory: FileNotFoundError (the path is
\* not found).  The parent refuses new entries: PermissionError.
OsMkdir(f, den, p) ==
  IF Exists(f, p) THEN [fs |-> f, exc |-> Raise("FileExistsError", p)]
  ELSE IF Parent(p) = p \/ ~IsDir(f, Parent(p))
    THEN [fs |-> f, exc |-> Raise("FileNotFoundError", p)]
  ELSE IF Parent(p) \in den THEN [fs |-> f, exc |-> Raise("PermissionError", p)]
  ELSE [fs |-> [f EXCEPT ![p] = Dir], exc |-> NoExc]

\* Path.mkdir(parents, exist_ok): on FileNotFoundError make the parents and
\* try again; any other OSError is swallowed when exist_ok and the target is a
\* directory.
RECURSIVE PathMkdir(_, _, _, _, _)
PathMkdir(f, den, p, parents, exist_ok) ==
  LET r == OsMkdir(f, den, p) IN
  IF r.exc.kind = "None" THEN r
  ELSE IF r.exc.kind = "FileNotFoundError" THEN
    IF ~parents \/ Parent(p) = p THEN r
    ELSE LET q == PathMkdir(f, den, Parent(p), TRUE, TRUE) IN
         IF q.exc.kind # "None" THEN q
         ELSE PathMkdir(q.fs, den, p, FALSE, exist_ok)
  ELSE IF ~exist_ok \/ ~IsDir(f, p) THEN r
  ELSE [fs |-> f, exc |-> NoExc]

\* Path.touch() (exist_ok = True): an existing entry keeps its content, a
\* missing one is created as an empty file.
PathTouch(f, den, p) ==
  IF Exists(f, p) THEN [fs |-> f, exc |-> NoExc]
  ELSE IF ~IsDir(f, Parent(p)) THEN [fs |-> f, exc |-> Raise("FileNotFoundError", p)]
  ELSE IF Parent(p) \in den THEN [fs |-> f, exc |-> Raise("PermissionError", p)]
  ELSE [fs |-> [f EXCEPT ![p] = File(EmptyContent)], exc |-> NoExc]

-----------------------------------------------------------------------------
\* The steps of create_project_structure.  The lines the script prints for an
\* item carry a mark: Tick for the check mark, Arrow for "bereits vorhanden".

Tick == "tick"
Arrow == "bereits vorhanden"

\* A first step that forgets parents.
MakeProjectFolderNoParents(f, den) == PathMkdir(f, den, project_path, FALSE, TRUE)

\* project_path.mkdir(parents=True, exist_ok=True)
MakeProjectFolder(f, den) == PathMkdir(f, den, project_path, TRUE, TRUE)

\* A directory step that forgets exist_ok.
MakeDirectoryNoExistOk(f, den, directory) ==
  LET r == PathMkdir(f, den, project_path \o directory, FALSE, FALSE) IN
  [fs |-> r.fs, exc |-> r.exc,
   out |-> IF r.exc.kind = "None" THEN <<[item |-> directory, mark |-> Tick]>> ELSE <<>>]

\* The body of `for directory in directories`.
MakeDirectory(f, den, directory) ==
  LET r == PathMkdir(f, den, project_path \o directory, FALSE, TRUE) IN
  [fs |-> r.fs, exc |-> r.exc,
   out |-> IF r.exc.kind = "None" THEN <<[item |-> directory, mark |-> Tick]>> ELSE <<>>]

\* A file step that opens the file for writing whether or not it exists.
MakeFileTruncating(f, den, file_path) ==
  LET full_file_path == project_path \o file_path
      r == PathMkdir(f, den, Parent(full_file_path), TRUE, TRUE)
  IN IF r.exc.kind # "None" THEN [fs |-> r.fs, exc |-> r.exc, out |-> <<>>]
     ELSE IF IsDir(r.fs, full_file_path)
       THEN [fs |-> r.fs, exc |-> Raise("PermissionError", full_file_path), out |-> <<>>]
     ELSE IF ~Exists(r.fs, full_file_path) /\ Parent(full_file_path) \in den
       THEN [fs |-> r.fs, exc |-> Raise("PermissionError", full_file_path), out |-> <<>>]
     ELSE [fs |-> [r.fs EXCEPT ![full_file_path] = File(EmptyContent)], exc |-> NoExc,
           out |-> <<[item |-> file_path, mark |-> Tick]>>]

\* A file step that does not create the file.
MakeFileSkipping(f, den, file_path) ==
  LET full_file_path == project_path \o file_path
      r == PathMkdir(f, den, Parent(full_file_path), TRUE, TRUE)
  IN IF r.exc.kind # "None" THEN [fs |-> r.fs, exc |-> r.exc, out |-> <<>>]
     ELSE [fs |-> r.fs, exc |-> NoExc,
           out |-> <<[item |-> file_path,
                      mark |-> IF Exists(r.fs, full_file_path) THEN Arrow ELSE Tick]>>]

\* The body of `for file_path in files`.
MakeFile(f, den, file_path) ==
  LET full_file_path == project_path \o file_path
      r == PathMkdir(f, den, Parent(full_file_path), TRUE, TRUE)
  IN IF r.exc.kind # "None" THEN [fs |-> r.fs, exc |-> r.exc, out |-> <<>>]
     ELSE IF ~Exists(r.fs, full_file_path)
       THEN LET t == PathTouch(r.fs, den, full_file_path) IN
            [fs |-> t.fs, exc |-> t.exc,
             out |-> IF t.exc.kind = "None"
                       THEN <<[item |-> file_path, mark |-> Tick]>> ELSE <<>>]
     ELSE [fs |-> r.fs, exc |-> NoExc, out |-> <<[item |-> file_path, mark |-> Arrow]>>]

\* The except clause of create_project_structure that catches an exception.
Handler(e) ==
  IF e.kind = "PermissionError" THEN "PermissionError"
  ELSE IF e.kind = "FileExistsError" THEN "FileExistsError"
  ELSE "Exception"

\* create_project_structure run from start to return, as one function of the
\* filesystem: the same steps, composed.
RECURSIVE DirectoryLoop(_, _, _)
DirectoryLoop(f, den, n) ==
  IF n > Len(directories) THEN [fs |-> f, exc |-> NoExc]
  ELSE LET r == MakeDirectory(f, den, directories[n]) IN
       IF r.exc.kind # "None" THEN [fs |-> r.fs, exc |-> r.exc]
       ELSE DirectoryLoop(r.fs, den, n + 1)

RECURSIVE FileLoop(_, _, _)
FileLoop(f, den, n) ==
  IF n > Len(files) THEN [fs |-> f, exc |-> NoExc]
  ELSE LET r == MakeFile(f, den, files[n]) IN
       IF r.exc.kind # "None" THEN [fs |-> r.fs, exc |-> r.exc]
       ELSE FileLoop(r.fs, den, n + 1)

CreateAll(f, den) ==
  LET a == MakeProjectFolder(f, den) IN
  IF a.exc.kind # "None" THEN a
  ELSE LET b == DirectoryLoop(a.fs, den, 1) IN
       IF b.exc.kind # "None" THEN b ELSE FileLoop(b.fs, den, 1)

-----------------------------------------------------------------------------
\* verify_structure(project_path): the loop over expected_items, from item n
\* with all_good as it stands, appending one line per item.

\* A scan that stops at the first missing item.
RECURSIVE VerifyLoopBreaking(_, _, _, _, _)
VerifyLoopBreaking(f, path, n, good, out) ==
  IF n > Len(expected_items) THEN [all_good |-> good, lines |-> out]
  ELSE IF Exists(f, path \o expected_items[n])
    THEN VerifyLoopBreaking(f, path, n + 1, good,
                            Append(out, [item |-> expected_items[n], present |-> TRUE]))
  ELSE [all_good |-> FALSE,
        lines |-> Append(out, [item |-> expected_items[n], present |-> FALSE])]

RECURSIVE VerifyLoop(_, _, _, _, _)
VerifyLoop(f, path, n, good, out) ==
  IF n > Len(expected_items) THEN [all_good |-> good, lines |-> out]
  ELSE IF Exists(f, path \o expected_items[n])
    THEN VerifyLoop(f, path, n + 1, good,
                    Append(out, [item |-> expected_items[n], present |-> TRUE]))
  ELSE VerifyLoop(f, path, n + 1, FALSE,
                  Append(out, [item |-> expected_items[n], present |-> FALSE]))

verify_structure(f, path) == VerifyLoop(f, path, 1, TRUE, <<>>)

\* sys.exit(1) on failure, the normal end of the script otherwise.
ExitAlwaysZero(ok) == 0

ExitCode(ok) == IF ok THEN 0 ELSE 1

\* What every except clause of create_project_structure returns.
HandlerReturnLenient(h) == h = "FileExistsError"

HandlerReturn(h) == FALSE

-----------------------------------------------------------------------------
\* The environment between two runs: the cause of the reported error is
\* removed.  A file in the way of a directory is deleted, the refused
\* permission is granted, the missing drive is attached.
RemoveCause(f, den, e) ==
  IF e.kind = "FileExistsError" THEN [fs |-> [f EXCEPT ![e.filename] = Absent], den |-> den]
  ELSE IF e.kind = "PermissionError" THEN [fs |-> f, den |-> den \ {Parent(e.filename)}]
  ELSE [fs |-> [f EXCEPT ![e.filename] = Dir], den |-> den]

-----------------------------------------------------------------------------
VARIABLES
  fs,          \* the filesystem: path -> entry
  denied,      \* the directories in which the user may not create entries
  pc,          \* where the running process is
  i,           \* the index of the loop that is running
  exc,         \* the exception that ended the try block, NoExc if none
  handler,     \* the except clause that reported it
  success,     \* what create_project_structure returned
  report,      \* the item lines create_project_structure has printed
  vres,        \* what verify_structure returned and printed
  exitcode,    \* the exit code of the process, -1 while it runs
  run,         \* the number of the run
  fsStart,     \* history: the filesystem when this run began
  prevExit,    \* history: the exit code of the run before, -1 if none
  ideal,       \* history: the first filesystem, with the causes removed so far
  idealDenied  \* history: the first permissions, with the causes removed so far

vars == <<fs, denied, pc, i, exc, handler, success, report, vres, exitcode, run,
          fsStart, prevExit, ideal, idealDenied>>

NotRun == [ran |-> FALSE, all_good |-> FALSE, lines |-> <<>>]

\* The entries a filesystem may hold before the first run.  (The empty files
\* are the ones the script creates: a later run finds them.)
PreEntries == {Dir, File(SomeContent)}

\* A set of paths below the project folder that can exist together.
ParentClosed(S) == \A p \in S : Parent(p) \in S \cup {project_path}

PreSets == {S \in SUBSET Declared : Cardinality(S) <= MaxPre /\ ParentClosed(S)}

DeniedSets ==
  {D \in SUBSET (Prefixes(project_path) \cup DeclaredDirs) : Cardinality(D) <= MaxDenied}

\* The first k components of project_path are directories; when blocked, the
\* next one is a file; S and ent are the entries below the project folder.
InitialFs(k, blocked, S, ent) ==
  [p \in Paths |->
     IF p \in S THEN ent[p]
     ELSE IF p \in Prefixes(project_path) /\ Len(p) <= k THEN Dir
     ELSE IF blocked /\ p \in Prefixes(project_path) /\ Len(p) = k + 1 THEN File(SomeContent)
     ELSE Absent]

ProcessStart ==
  /\ i = 1
  /\ exc = NoExc
  /\ handler = "None"
  /\ success = FALSE
  /\ report = <<>>
  /\ vres = NotRun
  /\ exitcode = -1

Init ==
  /\ \E k \in 0..Len(project_path), blocked \in BOOLEAN, S \in PreSets :
       \E ent \in [S -> PreEntries] :
         /\ S # {} => k = Len(project_path)
         /\ blocked => k \in 1..(Len(project_path) - 1)
         /\ \A p \in S : (\E q \in S : q # p /\ Parent(q) = p) => ent[p] = Dir
         /\ fs = InitialFs(k, blocked, S, ent)
         \* a refusal above the deepest existing folder changes nothing: the
         \* run creates no entry there
         /\ denied \in {D \in DeniedSets : \A d \in D : d \in Prefixes(project_path) => Len(d) >= k}
  /\ pc = "mkroot"
  /\ ProcessStart
  /\ run = 1
  /\ fsStart = fs
  /\ prevExit = -1
  /\ ideal = fs
  /\ idealDenied = denied

Env == <<denied, run, fsStart, prevExit, ideal, idealDenied>>

\* line 41
CreateProjectFolder ==
  /\ pc = "mkroot"
  /\ LET r == MakeProjectFolder(fs, denied) IN
       /\ fs' = r.fs
       /\ exc' = r.exc
       /\ pc' = IF r.exc.kind = "None" THEN "dirs" ELSE "except"
  /\ UNCHANGED <<i, handler, success, report, vres, exitcode, Env>>

\* lines 45-48, one iteration
CreateDirectory ==
  /\ pc = "dirs"
  /\ LET r == MakeDirectory(fs, denied, directories[i]) IN
       /\ fs' = r.fs
       /\ exc' = r.exc
       /\ report' = report \o r.out
       /\ IF r.exc.kind # "None" THEN pc' = "except" /\ i' = i
          ELSE IF i < Len(directories) THEN pc' = "dirs" /\ i' = i + 1
          ELSE pc' = "files" /\ i' = 1
  /\ UNCHANGED <<handler, success, vres, exitcode, Env>>

\* lines 52-63, one iteration
CreateFile ==
  /\ pc = "files"
  /\ LET r == MakeFile(fs, denied, files[i]) IN
       /\ fs' = r.fs
       /\ exc' = r.exc
       /\ report' = report \o r.out
       /\ IF r.exc.kind # "None" THEN pc' = "except" /\ i' = i
          ELSE IF i < Len(files) THEN pc' = "files" /\ i' = i + 1
          ELSE pc' = "summary" /\ i' = i
  /\ UNCHANGED <<handler, success, vres, exitcode, Env>>

\* lines 66-98
ReturnTrue ==
  /\ pc = "summary"
  /\ success' = TRUE
  /\ pc' = "main"
  /\ UNCHANGED <<fs, i, exc, handler, report, vres, exitcode, Env>>

\* lines 100-103
ExceptPermissionError ==
  /\ pc = "except"
  /\ Handler(exc) = "PermissionError"
  /\ handler' = "PermissionError"
  /\ success' = HandlerReturn("PermissionError")
  /\ pc' = "main"
  /\ UNCHANGED <<fs, i, exc, report, vres, exitcode, Env>>

\* lines 105-107
ExceptFileExistsError ==
  /\ pc = "except"
  /\ Handler(exc) = "FileExistsError"
  /\ handler' = "FileExistsError"
  /\ success' = HandlerReturn("FileExistsError")
  /\ pc' = "main"
  /\ UNCHANGED <<fs, i, exc, report, vres, exitcode, Env>>

\* lines 109-111
ExceptException ==
  /\ pc = "except"
  /\ Handler(exc) = "Exception"
  /\ handler' = "Exception"
  /\ success' = HandlerReturn("Exception")
  /\ pc' = "main"
  /\ UNCHANGED <<fs, i, exc, report, vres, exitcode, Env>>

\* lines 150-153: verify_structure is called, what it returns is not used
MainSuccess ==
  /\ pc = "main"
  /\ success
  /\ LET v == verify_structure(fs, main_project_path) IN
       vres' = [ran |-> TRUE, all_good |-> v.all_good, lines |-> v.lines]
  /\ exitcode' = ExitCode(success)
  /\ pc' = "exited"
  /\ UNCHANGED <<fs, i, exc, handler, success, report, Env>>

\* lines 154-156
MainFailure ==
  /\ pc = "main"
  /\ ~success
  /\ exitcode' = ExitCode(success)
  /\ pc' = "exited"
  /\ UNCHANGED <<fs, i, exc, handler, success, report, vres, Env>>

Restart ==
  /\ pc' = "mkroot"
  /\ i' = 1
  /\ exc' = NoExc
  /\ handler' = "None"
  /\ success' = FALSE
  /\ report' = <<>>
  /\ vres' = NotRun
  /\ exitcode' = -1
  /\ run' = run + 1
  /\ prevExit' = exitcode

\* The script is run again on the filesystem as it is.
Rerun ==
  /\ pc = "exited"
  /\ run < MaxRuns
  /\ Restart
  /\ fsStart' = fs
  /\ UNCHANGED <<fs, denied, ideal, idealDenied>>

\* The cause of the reported error is removed and the script is run again.
RerunFixed ==
  /\ pc = "exited"
  /\ run < MaxRuns
  /\ exc.kind # "None"
  /\ LET a == RemoveCause(fs, denied, exc)
         b == RemoveCause(ideal, idealDenied, exc)
     IN /\ fs' = a.fs
        /\ denied' = a.den
        /\ fsStart' = a.fs
        /\ ideal' = b.fs
        /\ idealDenied' = b.den
  /\ Restart

Next ==
  \/ CreateProjectFolder
  \/ CreateDirectory
  \/ CreateFile
  \/ ReturnTrue
  \/ ExceptPermissionError
  \/ ExceptFileExistsError
  \/ ExceptException
  \/ MainSuccess
  \/ MainFailure
  \/ Rerun
  \/ RerunFixed

Spec == Init /\ [][Next]_vars

-----------------------------------------------------------------------------
\* verify_structure as a function of the filesystem: it is applied to every
\* filesystem in which some of the declared entries exist and others do not.

ExistingSets == {S \in SUBSET Declared : ParentClosed(S)}

InitVerify ==
  /\ \E S \in ExistingSets, asDir \in BOOLEAN, k \in {0, Len(project_path)} :
       /\ S # {} => k = Len(project_path)
       /\ fs = InitialFs(k, FALSE, S,
                 [p \in S |-> IF asDir \/ p \in DeclaredDirs THEN Dir ELSE File(SomeContent)])
  /\ denied = {}
  /\ pc = "verify"
  /\ ProcessStart
  /\ run = 1
  /\ fsStart = fs
  /\ prevExit = -1
  /\ ideal = fs
  /\ idealDenied = denied

\* lines 113-142
VerifyCall ==
  /\ pc = "verify"
  /\ LET v == verify_structure(fs, main_project_path) IN
       vres' = [ran |-> TRUE, all_good |-> v.all_good, lines |-> v.lines]
  /\ pc' = "exited"
  /\ UNCHANGED <<fs, i, exc, handler, success, report, exitcode, Env>>

NextVerify == VerifyCall

SpecVerify == InitVerify /\ [][NextVerify]_vars

-----------------------------------------------------------------------------
\* Vocabulary of the properties.

\* The paths create_project_structure ensures, in the order of its steps.
Order ==
  <<project_path>> \o [n \in 1..Len(directories) |-> project_path \o directories[n]]
                   \o [n \in 1..Len(files) |-> project_path \o files[n]]

\* The paths that must be directories for the run to go through.
NeededDirs ==
  Prefixes(project_path) \cup DeclaredDirs \cup {Parent(p) : p \in DeclaredFiles}

\* A declared directory (or a directory on the way to it) is a file, or a
\* declared file is a directory.
DirBlockedByFile(f) == \E p \in NeededDirs : f[p].kind = "file"
FileBlockedByDir(f) == \E p \in DeclaredFiles \ NeededDirs : f[p].kind = "dir"
Conflicting(f) == DirBlockedByFile(f) \/ FileBlockedByDir(f)

\* Every entry that is missing may be created where it belongs.
Permitted(f, den) ==
  \A p \in NeededDirs \cup DeclaredFiles : ~Exists(f, p) => Parent(p) \notin den

DriveAttached(f) == Exists(f, <<project_path[1]>>)

\* The step of Order in which the exception was raised (the first step, when
\* it was raised on the way to the project folder).
FailedStep ==
  IF \E n \in 1..Len(Order) : Order[n] = exc.filename
    THEN CHOOSE n \in 1..Len(Order) : Order[n] = exc.filename
    ELSE 1

Finished == pc = "exited"

-----------------------------------------------------------------------------
\* C1: a file that exists when a run begins has the same content at every
\* point of the run and after it, whether the run succeeds or aborts: the
\* script never truncates, overwrites or removes an existing file.
C1_NonDestructive ==
  \A p \in Paths : fsStart[p].kind = "file" => fs[p] = fsStart[p]

\* A run has finished that found a declared file with content and reported it
\* as present.
C1_Witness ==
  /\ Finished
  /\ exitcode = 0
  /\ \E n \in 1..Len(files) :
       /\ fsStart[project_path \o files[n]] = File(SomeContent)
       /\ \E m \in 1..Len(report) : report[m] = [item |-> files[n], mark |-> Arrow]

\* C2: a run that follows a successful run changes nothing in the filesystem
\* and succeeds as well, and so does every further run.
C2_Idempotent ==
  (run > 1 /\ prevExit = 0) =>
     /\ fs = fsStart
     /\ exc = NoExc
     /\ Finished => exitcode = 0

\* The second run has finished after a first run that created entries.
C2_Witness ==
  /\ run = 2
  /\ prevExit = 0
  /\ Finished
  /\ exitcode = 0
  /\ ideal # fs
  /\ ~Exists(ideal, project_path)

\* C3: in a run that follows a successful run every declared item, directory
\* or file, is reported as already present and none as created.
C3_RerunReportsAllPresent ==
  (run > 1 /\ prevExit = 0 /\ Finished) =>
     /\ Len(report) = Len(directories) + Len(files)
     /\ \A n \in 1..Len(report) : report[n].mark = Arrow

\* C4: when create_project_structure has returned True, verify_structure
\* finds every expected item and returns True; the list it checks is covered
\* by the directories and files the script ensures, under the same folder.
C4_Completeness ==
  /\ Range(expected_items) \subseteq Range(directories) \cup Range(files)
  /\ main_project_path = project_path
  /\ (Finished /\ success) =>
       /\ vres.ran
       /\ vres.all_good
       /\ Len(vres.lines) = Len(expected_items)
       /\ \A n \in 1..Len(vres.lines) : vres.lines[n].present

\* The first run has succeeded on a filesystem without the project folder.
C4_Witness ==
  /\ Finished
  /\ success
  /\ vres.ran
  /\ run = 1
  /\ ~Exists(fsStart, project_path)

\* What a run leaves when it has ensured the whole layout.
LayoutExists ==
  /\ \A p \in NeededDirs : IsDir(fs, p)
  /\ \A p \in Declared : Exists(fs, p)

\* C5 as claimed: from every filesystem without conflicting entries the run
\* succeeds and leaves the project folder, every declared directory and file
\* and the parents of every file.
C5_CreatesLayout_Claimed ==
  (Finished /\ ~Conflicting(fsStart)) => (success /\ exitcode = 0 /\ LayoutExists)

\* C5 as amended: from every filesystem without conflicting entries, on an
\* attached drive and with no missing entry refused by its directory, the run
\* succeeds and leaves the project folder, every declared directory and file
\* and the parents of every file; the project folder and the folders above it
\* need not exist before.
C5_CreatesLayout ==
  (Finished /\ ~Conflicting(fsStart) /\ DriveAttached(fsStart) /\ Permitted(fsStart, denied))
     => (success /\ exitcode = 0 /\ LayoutExists)

\* The first run has succeeded where only the drive existed.
C5_Witness ==
  /\ Finished
  /\ run = 1
  /\ exitcode = 0
  /\ DriveAttached(fsStart)
  /\ \A p \in Paths : Len(p) > 1 => ~Exists(fsStart, p)
  /\ LayoutExists

\* C6: a run that finds a declared directory existing as a file, or a declared
\* file existing as a directory, ends with an exception, returns False and
\* exits with a code other than 0.
C6_ConflictAborts ==
  (Finished /\ Conflicting(fsStart)) => (exc.kind # "None" /\ ~success /\ exitcode # 0)

\* C7: once a step has raised, nothing after it happens: the items after the
\* failed step are as they were when the run began, the function returns
\* False through the except clause of the exception, verify_structure is not
\* run, and the process exits with a code other than 0.
C7_ErrorsTerminal ==
  exc.kind # "None" =>
     /\ pc \in {"except", "main", "exited"}
     /\ \A n \in 1..Len(Order) : n > FailedStep => fs[Order[n]] = fsStart[Order[n]]
     /\ ~success
     /\ pc # "except" => handler = Handler(exc)
     /\ vres = NotRun
     /\ exitcode # 0
     /\ Finished => exitcode = 1

\* A run has aborted on a file in the place of a directory, after it had made
\* an earlier directory, with items still to come.
C7_Witness ==
  /\ Finished
  /\ exitcode = 1
  /\ exc.kind = "FileExistsError"
  /\ Len(report) > 0
  /\ \E n \in 1..Len(Order) : n > FailedStep /\ ~Exists(fs, Order[n])

\* C8: the process exits with 0 only when create_project_structure returned
\* True and verify_structure found every expected item; it exits with a code
\* other than 0 whenever the run was ended by an exception.
C8_ExitCode ==
  /\ exitcode = 0 =>
       /\ success
       /\ exc = NoExc
       /\ vres.ran /\ vres.all_good
       /\ \A e \in Range(expected_items) : Exists(fs, main_project_path \o e)
  /\ (Finished /\ (exc.kind # "None" \/ ~success)) => exitcode = 1
  /\ Finished => exitcode \in {0, 1}

\* A run that follows an aborted run has exited with 0.
C8_Witness ==
  /\ Finished
  /\ exitcode = 0
  /\ prevExit = 1
  /\ vres.all_good

\* C9: when a run aborts, everything it had ensured before is still there at
\* exit; and a run that follows aborted runs whose causes were removed
\* succeeds and leaves the filesystem that one run on the first filesystem
\* without those causes leaves, whenever that run goes through.
C9_Resume ==
  /\ (Finished /\ exitcode = 1) =>
       /\ \A n \in 1..Len(report) : Exists(fs, project_path \o report[n].item)
       /\ \A p \in Paths : Exists(fsStart, p) => fs[p] = fsStart[p]
       /\ Len(report) > 0 => IsDir(fs, project_path)
  /\ (Finished /\ run > 1) =>
       LET u == CreateAll(ideal, idealDenied) IN
       u.exc.kind = "None" => (exitcode = 0 /\ fs = u.fs)

\* A run has succeeded after a run that aborted half way, whose cause was
\* then removed.
C9_Witness ==
  /\ Finished
  /\ run = 2
  /\ prevExit = 1
  /\ exitcode = 0
  /\ fsStart # ideal
  /\ \E d \in DeclaredDirs : Exists(fsStart, d) /\ ~Exists(ideal, d)

\* C10: verify_structure looks at every expected item in the order of the
\* list, also after a missing one, changes nothing in the filesystem, and
\* returns True exactly when every expected item exists.
C10_VerifyScan ==
  Finished =>
     /\ vres.ran
     /\ fs = fsStart
     /\ Len(vres.lines) = Len(expected_items)
     /\ \A n \in 1..Len(expected_items) :
          /\ vres.lines[n].item = expected_items[n]
          /\ vres.lines[n].present = Exists(fs, main_project_path \o expected_items[n])
     /\ vres.all_good = (\A e \in Range(expected_items) : Exists(fs, main_project_path \o e))

\* verify_structure has scanned a filesystem in which the first expected item
\* is missing and a later one exists.
C10_Witness ==
  /\ Finished
  /\ vres.ran
  /\ ~vres.all_good
  /\ ~Exists(fs, main_project_path \o expected_items[1])
  /\ \E n \in 2..Len(expected_items) : Exists(fs, main_project_path \o expected_items[n])

====
